---- MODULE Spec2Model ----
(***************************************************************************)
(* Sources/VLCBridging/libvlc_bridging.h: the umbrella header of VLCSwift. *)
(* The file is sixteen lines: a three-line block comment, a blank line and *)
(* twelve #include directives.  The model is the translation of a unit     *)
(* that includes only this header: the preprocessor reads the file one     *)
(* line at a time, skips comments and blank lines, and replaces every      *)
(* #include directive by the declarations of the header it resolves to.    *)
(* The headers themselves are external; what the model keeps of them is    *)
(* whether each is installed, whether it matches the installed framework   *)
(* and which file of the file system a directive resolves to.              *)
(***************************************************************************)
EXTENDS Integers, Sequences, FiniteSets

VARIABLES env, local, pc, inComment, kinds, directives, resolved, visible,
          diagnostics, status

vars == <<env, local, pc, inComment, kinds, directives, resolved, visible,
          diagnostics, status>>

(* Bounds of the environment the header is compiled in. *)
MaxFaulty == 1
MaxLocal == 1

Range(s) == {s[i] : i \in 1..Len(s)}

(* An #include directive, as the tokens of its line. *)
AngleInclude(dir, name) == <<"#", "include", "<", dir, "/", name, ">">>

(* ---- variants of the file, each one slip away from the source ---- *)

Preamble ==
  << <<"/*", "Include all libVLC header that will">>,
     <<"*", "be needed for VLCSwift:">>,
     <<"*/">>,
     <<>> >>

IncludesOf(names) == [i \in 1..Len(names) |-> AngleInclude("vlc", names[i])]

(* The include of libvlc_media_library.h left out. *)
Lines_DropMediaLibrary ==
  Preamble \o IncludesOf(<<"libvlc.h", "libvlc_renderer_discoverer.h",
    "libvlc_picture.h", "libvlc_media.h", "libvlc_media_player.h",
    "libvlc_media_list.h", "libvlc_media_list_player.h",
    "libvlc_media_discoverer.h", "libvlc_events.h", "libvlc_dialog.h",
    "libvlc_version.h">>)

(* libvlc_media_player.h included before libvlc_media.h. *)
Lines_PlayerBeforeMedia ==
  Preamble \o IncludesOf(<<"libvlc.h", "libvlc_renderer_discoverer.h",
    "libvlc_picture.h", "libvlc_media_player.h", "libvlc_media.h",
    "libvlc_media_list.h", "libvlc_media_list_player.h",
    "libvlc_media_library.h", "libvlc_media_discoverer.h", "libvlc_events.h",
    "libvlc_dialog.h", "libvlc_version.h">>)

(* A thirteenth directive that repeats libvlc_media.h. *)
Lines_MediaTwice ==
  Preamble \o IncludesOf(<<"libvlc.h", "libvlc_renderer_discoverer.h",
    "libvlc_picture.h", "libvlc_media.h", "libvlc_media_player.h",
    "libvlc_media_list.h", "libvlc_media_list_player.h",
    "libvlc_media_library.h", "libvlc_media.h", "libvlc_media_discoverer.h",
    "libvlc_events.h", "libvlc_dialog.h", "libvlc_version.h">>)

(* Every directive written in the quoted form. *)
Lines_Quoted ==
  Preamble \o [i \in 1..12 |->
    <<"#", "include", "\"", "vlc", "/",
      (<<"libvlc.h", "libvlc_renderer_discoverer.h", "libvlc_picture.h",
         "libvlc_media.h", "libvlc_media_player.h", "libvlc_media_list.h",
         "libvlc_media_list_player.h", "libvlc_media_library.h",
         "libvlc_media_discoverer.h", "libvlc_events.h", "libvlc_dialog.h",
         "libvlc_version.h">>)[i], "\"">>]

(* The blank line replaced by a declaration of the file's own. *)
Lines_OwnTypedef ==
  << <<"/*", "Include all libVLC header that will">>,
     <<"*", "be needed for VLCSwift:">>,
     <<"*/">>,
     <<"typedef", "struct libvlc_instance_t", "*", "vlc_bridge_t", ";">> >>
  \o IncludesOf(<<"libvlc.h", "libvlc_renderer_discoverer.h",
    "libvlc_picture.h", "libvlc_media.h", "libvlc_media_player.h",
    "libvlc_media_list.h", "libvlc_media_list_player.h",
    "libvlc_media_library.h", "libvlc_media_discoverer.h", "libvlc_events.h",
    "libvlc_dialog.h", "libvlc_version.h">>)

(* The include of libvlc_picture.h commented out. *)
Lines_PictureCommentedOut ==
  Preamble \o IncludesOf(<<"libvlc.h", "libvlc_renderer_discoverer.h">>)
  \o << <<"/*">> \o AngleInclude("vlc", "libvlc_picture.h") \o <<"*/">> >>
  \o IncludesOf(<<"libvlc_media.h", "libvlc_media_player.h",
    "libvlc_media_list.h", "libvlc_media_list_player.h",
    "libvlc_media_library.h", "libvlc_media_discoverer.h", "libvlc_events.h",
    "libvlc_dialog.h", "libvlc_version.h">>)

(* The block comment never closed. *)
Lines_CommentNotClosed ==
  << <<"/*", "Include all libVLC header that will">>,
     <<"*", "be needed for VLCSwift:">>,
     <<"*">>,
     <<>> >>
  \o IncludesOf(<<"libvlc.h", "libvlc_renderer_discoverer.h",
    "libvlc_picture.h", "libvlc_media.h", "libvlc_media_player.h",
    "libvlc_media_list.h", "libvlc_media_list_player.h",
    "libvlc_media_library.h", "libvlc_media_discoverer.h", "libvlc_events.h",
    "libvlc_dialog.h", "libvlc_version.h">>)

(* The sixteen lines of libvlc_bridging.h, each as its sequence of tokens. *)
Lines ==
  << <<"/*", "Include all libVLC header that will">>,
     <<"*", "be needed for VLCSwift:">>,
     <<"*/">>,
     <<>>,
     AngleInclude("vlc", "libvlc.h"),
     AngleInclude("vlc", "libvlc_renderer_discoverer.h"),
     AngleInclude("vlc", "libvlc_picture.h"),
     AngleInclude("vlc", "libvlc_media.h"),
     AngleInclude("vlc", "libvlc_media_player.h"),
     AngleInclude("vlc", "libvlc_media_list.h"),
     AngleInclude("vlc", "libvlc_media_list_player.h"),
     AngleInclude("vlc", "libvlc_media_library.h"),
     AngleInclude("vlc", "libvlc_media_discoverer.h"),
     AngleInclude("vlc", "libvlc_events.h"),
     AngleInclude("vlc", "libvlc_dialog.h"),
     AngleInclude("vlc", "libvlc_version.h") >>

NumLines == Len(Lines)

IsInclude(l) == Len(l) = 7 /\ l[1] = "#" /\ l[2] = "include"

(* The headers of the external framework that the umbrella header is to    *)
(* aggregate; the framework installs them under vlc/ on the search path.   *)
FrameworkHeaders ==
  {"libvlc.h", "libvlc_renderer_discoverer.h", "libvlc_picture.h",
   "libvlc_media.h", "libvlc_media_player.h", "libvlc_media_list.h",
   "libvlc_media_list_player.h", "libvlc_media_library.h",
   "libvlc_media_discoverer.h", "libvlc_events.h", "libvlc_dialog.h",
   "libvlc_version.h"}

(* What the environment can offer for one framework header: it is not on   *)
(* the include search path; it is installed and matches the installed      *)
(* framework; it is installed from another version and still compiles; it  *)
(* is installed from another version and its declarations conflict.        *)
HeaderStates == {"match", "absent", "mismatch_clean", "mismatch_conflict"}

EnvOf(h) == IF h \in DOMAIN env THEN env[h] ELSE "absent"

(* ---- the preprocessor's view of one line ---- *)

ClosesComment(l) == \E i \in 1..Len(l) : l[i] = "*/"

OpensComment(l) == Len(l) >= 1 /\ l[1] = "/*"

IsBlank(l) == Len(l) = 0

IncludeForm(l) == IF l[3] = "<" /\ l[7] = ">" THEN "angle" ELSE "quote"

Directive(l) == [form |-> IncludeForm(l), dir |-> l[4], name |-> l[6]]

(* Where a directive's file is found: the quoted form looks first in the   *)
(* directory of the including file, both forms then look on the include    *)
(* search path, where the framework installs its headers under vlc/.       *)
Resolve(d) ==
  IF d.form = "quote" /\ d.dir = "vlc" /\ d.name \in local THEN "local"
  ELSE IF d.dir = "vlc" /\ EnvOf(d.name) # "absent" THEN "searchpath"
  ELSE "none"

(* The declarations a resolved header makes visible. *)
Decls(r) == {<<"header", r.name, r.from>>}

(* What a line of the file that is neither comment, blank nor #include     *)
(* would add to the translation unit: a symbol of the file's own.          *)
OwnDecls(n, l) ==
  IF IsBlank(l) \/ OpensComment(l) THEN {} ELSE {<<"own", n, l>>}

(* How the preprocessor classifies a line that is not an #include. *)
LineKind(l) ==
  IF inComment \/ OpensComment(l) THEN "comment"
  ELSE IF IsBlank(l) THEN "blank"
  ELSE "text"

(* The diagnostics of including a header that was found. *)
ContentDiagnostics(d, from) ==
  IF from = "searchpath" /\ EnvOf(d.name) = "mismatch_conflict"
  THEN {[kind |-> "redeclaration", name |-> d.name]}
  ELSE {}

(* ---- the environment ---- *)

Faulty(e) == {h \in DOMAIN e : e[h] # "match"}

(* The environments in which at most MaxFaulty headers are not the         *)
(* matching installed ones.                                                *)
Environments ==
  UNION {{[h \in FrameworkHeaders |-> IF h \in F THEN f[h] ELSE "match"] :
            f \in [F -> HeaderStates \ {"match"}]} :
         F \in {G \in SUBSET FrameworkHeaders : Cardinality(G) <= MaxFaulty}}

Init ==
  /\ env \in Environments
  /\ local \in {s \in SUBSET FrameworkHeaders : Cardinality(s) <= MaxLocal}
  /\ pc = 1
  /\ inComment = FALSE
  /\ kinds = <<>>
  /\ directives = <<>>
  /\ resolved = <<>>
  /\ visible = {}
  /\ diagnostics = {}
  /\ status = "running"

(* ---- the steps of preprocessing ---- *)

(* A line that is not an #include directive: comment text, a blank line,   *)
(* or text of the file's own.                                              *)
ScanLine ==
  /\ status = "running"
  /\ pc <= NumLines
  /\ LET l == Lines[pc] IN
       /\ inComment \/ ~IsInclude(l)
       /\ IF inComment
          THEN /\ inComment' = ~ClosesComment(l)
               /\ visible' = visible
          ELSE /\ inComment' = (OpensComment(l) /\ ~ClosesComment(l))
               /\ visible' = visible \cup OwnDecls(pc, l)
       /\ kinds' = Append(kinds, LineKind(l))
  /\ pc' = pc + 1
  /\ UNCHANGED <<env, local, directives, resolved, diagnostics, status>>

(* An #include directive whose file is found. *)
Include ==
  /\ status = "running"
  /\ pc <= NumLines
  /\ ~inComment
  /\ IsInclude(Lines[pc])
  /\ LET d == Directive(Lines[pc])
         from == Resolve(d)
         r == [name |-> d.name, from |-> from]
     IN /\ from # "none"
        /\ directives' = Append(directives, d)
        /\ resolved' = Append(resolved, r)
        /\ visible' = visible \cup Decls(r)
        /\ diagnostics' = diagnostics \cup ContentDiagnostics(d, from)
  /\ kinds' = Append(kinds, "include")
  /\ pc' = pc + 1
  /\ UNCHANGED <<env, local, inComment, status>>

(* An #include directive whose file is not found: a fatal error, the       *)
(* translation stops at the directive.                                     *)
IncludeMissing ==
  /\ status = "running"
  /\ pc <= NumLines
  /\ ~inComment
  /\ IsInclude(Lines[pc])
  /\ LET d == Directive(Lines[pc]) IN
       /\ Resolve(d) = "none"
       /\ directives' = Append(directives, d)
       /\ diagnostics' = diagnostics \cup {[kind |-> "missing-file", name |-> d.name]}
  /\ kinds' = Append(kinds, "include")
  /\ status' = "failed"
  /\ UNCHANGED <<env, local, pc, inComment, resolved, visible>>

(* End of file: the translation succeeds iff no diagnostic was issued and  *)
(* no comment is left open.                                                *)
Finish ==
  /\ status = "running"
  /\ pc = NumLines + 1
  /\ status' = IF diagnostics = {} /\ ~inComment THEN "ok" ELSE "failed"
  /\ UNCHANGED <<env, local, pc, inComment, kinds, directives, resolved,
                 visible, diagnostics>>

Next == ScanLine \/ Include \/ IncludeMissing \/ Finish

Spec == Init /\ [][Next]_vars

(* The translation of a unit proceeds line by line until the end of the    *)
(* file or a fatal error; it is never suspended.                           *)
FairSpec == Spec /\ WF_vars(Next)

TypeOK ==
  /\ env \in [FrameworkHeaders -> HeaderStates]
  /\ local \subseteq FrameworkHeaders
  /\ pc \in 1..(NumLines + 1)
  /\ inComment \in BOOLEAN
  /\ status \in {"running", "ok", "failed"}

(* ---- the properties of the header ---- *)

(* The twelve headers in the order in which the specification lists them. *)
ListedOrder ==
  <<"libvlc.h", "libvlc_renderer_discoverer.h", "libvlc_picture.h",
    "libvlc_media.h", "libvlc_media_player.h", "libvlc_media_list.h",
    "libvlc_media_list_player.h", "libvlc_media_library.h",
    "libvlc_media_discoverer.h", "libvlc_events.h", "libvlc_dialog.h",
    "libvlc_version.h">>

ListedHeaders == Range(ListedOrder)

IncludedNames == {directives[i].name : i \in 1..Len(directives)}

AtEndOfFile == pc = NumLines + 1

Terminated == status # "running"

(* C1: the headers included by libvlc_bridging.h are exactly the twelve    *)
(* listed ones: no directive names another header, and once the whole      *)
(* file has been read none of the twelve is missing.                       *)
C1_ExactlyTheTwelve ==
  /\ IncludedNames \subseteq ListedHeaders
  /\ AtEndOfFile => IncludedNames = ListedHeaders

C1_Witness ==
  /\ status = "ok"
  /\ Cardinality(IncludedNames) = 12

(* C3: the file contributes nothing of its own: every line read is a       *)
(* comment line, a blank line or an #include directive, and the visible    *)
(* declarations are exactly the union of the declarations of the headers   *)
(* included so far.                                                        *)
C3_NoOwnSymbols ==
  /\ \A i \in 1..Len(kinds) : kinds[i] \in {"comment", "blank", "include"}
  /\ visible = UNION {Decls(r) : r \in Range(resolved)}

C3_Witness ==
  /\ Terminated
  /\ Len(kinds) = 16
  /\ Cardinality(visible) = 12

AllMatch == \A h \in ListedHeaders : EnvOf(h) = "match"

CleanSuccess ==
  /\ status = "ok"
  /\ diagnostics = {}
  /\ \A h \in ListedHeaders :
       \E r \in Range(resolved) : r.name = h /\ Decls(r) \subseteq visible

(* C5: when all twelve headers are on the search path and match the        *)
(* installed framework, the translation terminates successfully with no    *)
(* diagnostic and the declarations of every one of the twelve headers,     *)
(* those of the core header libvlc.h included, are visible.                *)
C5_MatchingCompiles == AllMatch ~> CleanSuccess

C5_Witness ==
  /\ AllMatch
  /\ status = "ok"
  /\ \E r \in Range(resolved) : r.name = "libvlc.h" /\ Decls(r) \subseteq visible

(* C6: the directives appear in exactly the listed sequence: what has been *)
(* read is always a prefix of it, and all of it at the end of the file, so *)
(* libvlc.h comes first and libvlc_version.h last.                         *)
C6_ListedSequence ==
  /\ Len(directives) <= Len(ListedOrder)
  /\ \A i \in 1..Len(directives) : directives[i].name = ListedOrder[i]
  /\ AtEndOfFile => Len(directives) = Len(ListedOrder)

C6_Witness ==
  /\ AtEndOfFile
  /\ Len(directives) = 12
  /\ directives[1].name = "libvlc.h"
  /\ directives[12].name = "libvlc_version.h"

(* C7: no header is included by two directives, so at the end of the file  *)
(* the twelve directives name twelve distinct headers.                     *)
C7_EachOnce ==
  /\ \A i, j \in 1..Len(directives) :
       directives[i].name = directives[j].name => i = j
  /\ AtEndOfFile => (Len(directives) = 12 /\ Cardinality(IncludedNames) = 12)

C7_Witness ==
  /\ AtEndOfFile
  /\ status = "running"
  /\ Len(directives) = Cardinality(IncludedNames)
  /\ Len(directives) = 12

(* C8: every directive has the angle-bracket form and the prefix vlc/, and *)
(* every header found is found on the include search path, never in the    *)
(* directory of libvlc_bridging.h, even when a file of that name is there. *)
C8_AngleVlcPrefix ==
  /\ \A i \in 1..Len(directives) :
       directives[i].form = "angle" /\ directives[i].dir = "vlc"
  /\ \A r \in Range(resolved) : r.from = "searchpath"

C8_Witness ==
  \E r \in Range(resolved) : r.name \in local /\ r.from = "searchpath"
====
